---- MODULE Spec2Model ----
(***************************************************************************)
(* Model of the dwarfs inode ordering subsystem                            *)
(* (src/src/dwarfs/inode_manager.cpp): the inode registry, the ordering    *)
(* modes NONE, PATH, SCRIPT, SIMILARITY and NILSIMSA, the greedy nilsimsa  *)
(* walk with its search window and the online depth adaptation; of the     *)
(* progress reporter thread (src/src/dwarfs/progress.cpp) and of the       *)
(* dwarfsck tool (src/src/dwarfsck.cpp).                                   *)
(*                                                                         *)
(* Spec         : whole ordering runs over small registries.               *)
(* SpecDepth    : the greedy loop's depth control over long runs, where    *)
(*                the index is kept by its size and the similarities met   *)
(*                in the window are inputs.                                *)
(* SpecProgress : the reporter thread against the destructor.              *)
(* SpecProgressFair : SpecProgress under fair scheduling.                  *)
(* SpecWalk     : the NILSIMSA walk over registries of more inodes.        *)
(* SpecCk       : runs of dwarfsck's main.                                 *)
(* SpecConstFill: SpecDepth with a sink that returns the fill 1024.        *)
(* SpecScan     : inode_::scan over one file, window by window.            *)
(***************************************************************************)
EXTENDS Integers, Sequences, FiniteSets, TLC

VARIABLES
  obj,        \* the inode_ objects, by identity (creation rank 1..n)
  inodes_,    \* inode_manager_::inodes_ : vector of inode identities
  pc,         \* position of the driver ("idle", "new", "filed") / of order_inodes
  opts,       \* file_order_options (the mode is fixed when the driver starts)
  scr,        \* the script collaborator: [has_order, order_called, perm]
  inodes,     \* order_inodes_by_nilsimsa: local vector `inodes` (0 = moved-from)
  index,      \* order_inodes_by_nilsimsa: local vector `index` (0-based entries)
  inode_no,   \* order_inodes_by_nilsimsa: parameter inode_no (running number)
  count,      \* order_inodes_by_nilsimsa: local `count`
  depth,      \* order_inodes_by_nilsimsa: local `depth`
  processed,  \* order_inodes_by_nilsimsa: local `processed`
  prog_nilsimsa_depth, \* prog_.nilsimsa_depth: <<>> until order_inodes writes it, then <<d>>
  emit_k,     \* order_inodes: position of the final emission loop
  sunk,       \* calls of the sink fn so far: <<[ino, num at the call]>>
  last,       \* the last greedy step: index before it, window end, result
  index_size, \* SpecDepth: index.size()
  err,        \* the error order_inodes / set_files ended with
  reporter,   \* SpecProgress: a progress object, its thread and its destructor
  ck,         \* SpecCk: a run of dwarfsck's main
  scanner     \* SpecScan: a call of inode_::scan, its mapping and its hashers

\* the variables of the progress reporter, of the dwarfsck tool and of scan
toolVars == <<reporter, ck, scanner>>

vars == <<obj, inodes_, pc, opts, scr, inodes, index, inode_no, count, depth,
          processed, prog_nilsimsa_depth, emit_k, sunk, last, index_size, err,
          reporter, ck, scanner>>

-----------------------------------------------------------------------------
(* Bounds of the model *)

MaxInodes == 3      \* inodes created per run
MaxDepthOpt == 2    \* largest nilsimsa_depth option tried
MaxSteps == 4162    \* SpecDepth: greedy steps of the longest run
MaxArgc == 4        \* SpecCk: largest argc dwarfsck is run with
MaxReports == 5     \* SpecProgress: periodic reports the thread makes at most
WalkInodes == 4     \* SpecWalk: inodes of the largest registry walked
MaxWindows == 3     \* SpecScan: full windows of the largest file scanned

(* Program constants *)

UnassignedNum == -1           \* num_{std::numeric_limits<uint32_t>::max()}: the
                              \* all-ones word, written as its 32-bit pattern -1
AdaptStart == 4096            \* ++processed >= 4096
AdaptEvery == 32              \* processed % 32 == 0
Smooth == 512                 \* constexpr int64_t smooth = 512
FillScale == 2048             \* fill * max_depth / 2048

-----------------------------------------------------------------------------
(* Input data: files and file contents *)

\* Byte strings: "a/x", "b/x", "a/y", "c", "cc"
Str_ax == <<97, 47, 120>>
Str_bx == <<98, 47, 120>>
Str_ay == <<97, 47, 121>>
Str_x  == <<120>>
Str_y  == <<121>>
Str_c  == <<99>>
Str_cc == <<99, 99>>

\* file handles: path(), name() (the basename), size()
Files ==
  { [path |-> Str_ax, name |-> Str_x,  size |-> 2],
    [path |-> Str_bx, name |-> Str_x,  size |-> 2],
    [path |-> Str_ay, name |-> Str_y,  size |-> 2],
    [path |-> Str_c,  name |-> Str_c,  size |-> 1],
    [path |-> Str_cc, name |-> Str_cc, size |-> 0] }

\* 256-bit nilsimsa digests (four 64-bit words), written as the set `bits` of
\* bit positions in 0..255 that are one (inv FALSE) or that are zero (inv TRUE)
DigestZero == [inv |-> FALSE, bits |-> {}]       \* all 256 bits zero
DigestTwo  == [inv |-> FALSE, bits |-> {0, 1}]   \* bits 0 and 1 one
DigestOnes == [inv |-> TRUE,  bits |-> {}]       \* all 256 bits one

\* what a scan of a file's content yields: (similarity hash, nilsimsa digest)
Contents ==
  { [similarity |-> 3, nilsimsa |-> DigestZero],
    [similarity |-> 7, nilsimsa |-> DigestTwo],
    [similarity |-> 7, nilsimsa |-> DigestOnes] }

\* fill values a sink can return
Fills == {-400000000, 0, 1024, 400000000}

\* nilsimsa_limit options tried, first_inode values tried
Limits == {0, 255}
FirstInodes == {0, 5}

-----------------------------------------------------------------------------
(* Pure helpers *)

Min(a, b) == IF a < b THEN a ELSE b

\* C++ integer division (truncation toward zero), b > 0
CDiv(a, b) == IF a >= 0 THEN a \div b ELSE -((-a) \div b)

\* std::string operator< : lexicographic, byte-wise
RECURSIVE StrLess(_, _)
StrLess(a, b) ==
  IF b = <<>> THEN FALSE
  ELSE IF a = <<>> THEN TRUE
  ELSE IF a[1] < b[1] THEN TRUE
  ELSE IF a[1] > b[1] THEN FALSE
  ELSE StrLess(Tail(a), Tail(b))

\* the sequences that hold every element of set S exactly once
RECURSIVE PermSeqs(_)
PermSeqs(S) ==
  IF S = {} THEN { <<>> }
  ELSE UNION { { <<x>> \o p : p \in PermSeqs(S \ {x}) } : x \in S }

Range(s) == { s[i] : i \in 1..Len(s) }

\* results std::sort may leave for sequence s under comparator Less
SortOutcomes(s, Less(_, _)) ==
  { p \in PermSeqs(Range(s)) :
      \A i, j \in 1..Len(p) : i < j => ~Less(p[j], p[i]) }

\* results std::partition may leave: every Pred element before every other
PartitionOutcomes(s, Pred(_)) ==
  { p \in PermSeqs(Range(s)) :
      \A i, j \in 1..Len(p) : (i < j /\ Pred(p[j])) => Pred(p[i]) }

-----------------------------------------------------------------------------
(* The inode_ object *)

\* a fresh inode_: no files, no hashes, num_ unassigned
NewInode ==
  [ files |-> <<>>, similarity_hash_ |-> 0,
    nilsimsa_similarity_hash_ |-> <<>>, num_ |-> UnassignedNum ]

\* inode_::any() / size() / nilsimsa_similarity_hash() of inode i (files set)
any(i) == Head(obj[i].files)
size(i) == any(i).size
nilsimsa_similarity_hash(i) == Head(obj[i].nilsimsa_similarity_hash_)
similarity_hash(i) == obj[i].similarity_hash_

\* The four accessors as calls that may throw: what the call on inode i
\* throws ("none": it returns) and, when it returns, its value
try_any(i) ==
  IF obj[i].files = <<>>
    THEN [thrown |-> "NoFile", value |-> <<>>]
    ELSE [thrown |-> "none", value |-> <<Head(obj[i].files)>>]

\* size() is any()->size(): it throws what any() throws
try_size(i) ==
  IF try_any(i).thrown # "none"
    THEN [thrown |-> try_any(i).thrown, value |-> <<>>]
    ELSE [thrown |-> "none", value |-> <<try_any(i).value[1].size>>]

\* similarity_hash returning similarity_hash_ without the test of files_
try_similarity_hash_Unchecked(i) ==
  [thrown |-> "none", value |-> <<obj[i].similarity_hash_>>]

try_similarity_hash(i) ==
  IF obj[i].files = <<>>
    THEN [thrown |-> "NoFile", value |-> <<>>]
    ELSE [thrown |-> "none", value |-> <<obj[i].similarity_hash_>>]

try_nilsimsa_similarity_hash(i) ==
  IF obj[i].files = <<>>
    THEN [thrown |-> "NoFile", value |-> <<>>]
    ELSE [thrown |-> "none", value |-> <<obj[i].nilsimsa_similarity_hash_>>]

Accessors == {"similarity_hash", "nilsimsa_similarity_hash", "any", "size"}

try_accessor(op, i) ==
  CASE op = "similarity_hash" -> try_similarity_hash(i)
    [] op = "nilsimsa_similarity_hash" -> try_nilsimsa_similarity_hash(i)
    [] op = "any" -> try_any(i)
    [] op = "size" -> try_size(i)

\* inode_::set_num on the object table o (the numbers of a run stay far
\* below the uint32_t wrap)
set_num(o, i, num) == [o EXCEPT ![i].num_ = num]

\* the driver is between inodes: every inode created so far has its files
\* and has been scanned with the inode options of the run's mode
Ready == pc = "idle"

\* inode_options of the run: with_similarity, with_nilsimsa, needs_scan()
with_similarity == opts.mode = "SIMILARITY"
with_nilsimsa == opts.mode = "NILSIMSA"
needs_scan == with_similarity \/ with_nilsimsa

-----------------------------------------------------------------------------
(* Comparators and sorts of the ordering modes *)

\* PathLess comparing the basenames instead of the paths
PathLess_ByName(a, b) == StrLess(any(inodes_[a]).name, any(inodes_[b]).name)

\* order_inodes_by_path: comparator over positions a, b of inodes_
PathLess(a, b) == StrLess(any(inodes_[a]).path, any(inodes_[b]).path)

\* order_inodes_by_path: the registry vector it can leave
order_inodes_by_path ==
  { [k \in 1..Len(inodes_) |-> inodes_[p[k]]] :
      p \in SortOutcomes([k \in 1..Len(inodes_) |-> k], PathLess) }

\* SimilarityLess with the size comparison turned around
SimilarityLess_SizeAscending(a, b) ==
  \/ similarity_hash(a) < similarity_hash(b)
  \/ /\ similarity_hash(a) = similarity_hash(b)
     /\ \/ size(a) < size(b)
        \/ /\ size(a) = size(b)
           /\ StrLess(any(a).path, any(b).path)

\* order_inodes_by_similarity: comparator over inodes a, b
SimilarityLess(a, b) ==
  \/ similarity_hash(a) < similarity_hash(b)
  \/ /\ similarity_hash(a) = similarity_hash(b)
     /\ \/ size(a) > size(b)
        \/ /\ size(a) = size(b)
           /\ StrLess(any(a).path, any(b).path)

\* order_inodes_by_similarity: the registry vector it can leave
order_inodes_by_similarity == SortOutcomes(inodes_, SimilarityLess)

\* PresortLess with the basename and path comparisons turned around
PresortLess_Ascending(ins, a, b) ==
  LET ia == ins[a + 1]
      ib == ins[b + 1]
  IN IF size(ia) < size(ib) THEN TRUE
     ELSE IF size(ia) > size(ib) THEN FALSE
     ELSE IF StrLess(any(ia).name, any(ib).name) THEN TRUE
     ELSE IF StrLess(any(ib).name, any(ia).name) THEN FALSE
     ELSE StrLess(any(ia).path, any(ib).path)

\* PresortLess without its last key, the path
PresortLess_NoPath(ins, a, b) ==
  LET ia == ins[a + 1]
      ib == ins[b + 1]
  IN IF size(ia) < size(ib) THEN TRUE
     ELSE IF size(ia) > size(ib) THEN FALSE
     ELSE StrLess(any(ib).name, any(ia).name)

\* presort_index: comparator over entries a, b of index (positions in ins)
PresortLess(ins, a, b) ==
  LET ia == ins[a + 1]
      ib == ins[b + 1]
  IN IF size(ia) < size(ib) THEN TRUE
     ELSE IF size(ia) > size(ib) THEN FALSE
     ELSE IF StrLess(any(ib).name, any(ia).name) THEN TRUE
     ELSE IF StrLess(any(ia).name, any(ib).name) THEN FALSE
     ELSE StrLess(any(ib).path, any(ia).path)

\* presort_index: the index it can leave
presort_index(ins, idx) ==
  LET Less(a, b) == PresortLess(ins, a, b)
  IN SortOutcomes(idx, Less)

\* number_inodes on object table o and registry vector v:
\* the inode at (0-based) position k of v gets first_no + k
number_inodes(o, v, first_no) ==
  [i \in 1..Len(o) |->
     LET ks == { k \in 1..Len(v) : v[k] = i }
     IN IF ks = {} THEN o[i]
        ELSE set_num(o, i, first_no + (CHOOSE k \in ks : TRUE) - 1)[i]]

-----------------------------------------------------------------------------
(* The nilsimsa greedy walk: pure parts *)

\* popcount(a XOR b) of two 256-bit digests
PopcountXor(a, b) ==
  LET d == Cardinality((a.bits \ b.bits) \cup (b.bits \ a.bits))
  IN IF a.inv = b.inv THEN d ELSE 256 - d

\* Similarity counted from 256 instead of 255
Similarity_From256(a, b) == 256 - 2 * PopcountXor(a, b)

\* DWARFS_NILSIMSA_SIMILARITY of two digests: 255 - 2 * popcount(a XOR b)
Similarity(a, b) == 255 - 2 * PopcountXor(a, b)

\* the argument `end` of find_similar_inode:
\* int(index.size()) > depth ? index.size() - depth : 0
WindowEnd(sz, d) == IF sz > d THEN sz - d ELSE 0

\* FindScan leaving the loop only on a similarity above the limit
RECURSIVE FindScan_StrictLimit(_, _, _, _, _, _, _)
FindScan_StrictLimit(sim, i, end, limit, max_sim, max_sim_ix, n) ==
  IF i < end
    THEN [ix |-> max_sim_ix, sim |-> max_sim, ncmp |-> n, brk |-> FALSE]
    ELSE IF sim[i] > max_sim
      THEN IF sim[i] > limit
        THEN [ix |-> i, sim |-> sim[i], ncmp |-> n + 1, brk |-> TRUE]
        ELSE FindScan_StrictLimit(sim, i - 1, end, limit, sim[i], i, n + 1)
      ELSE FindScan_StrictLimit(sim, i - 1, end, limit, max_sim, max_sim_ix, n + 1)

\* the loop of find_similar_inode from position i down to end; sim[j] is the
\* similarity of the reference to the entry at (0-based) position j; n counts
\* the similarity computations made
RECURSIVE FindScan(_, _, _, _, _, _, _)
FindScan(sim, i, end, limit, max_sim, max_sim_ix, n) ==
  IF i < end
    THEN [ix |-> max_sim_ix, sim |-> max_sim, ncmp |-> n, brk |-> FALSE]
    ELSE IF sim[i] > max_sim
      THEN IF sim[i] >= limit
        THEN [ix |-> i, sim |-> sim[i], ncmp |-> n + 1, brk |-> TRUE]
        ELSE FindScan(sim, i - 1, end, limit, sim[i], i, n + 1)
      ELSE FindScan(sim, i - 1, end, limit, max_sim, max_sim_ix, n + 1)

\* find_similar_inode over an index of sz entries
find_similar_inode(sim, sz, limit, end) ==
  FindScan(sim, sz - 1, end, limit, 0, 0, 0)

\* Rotate as an exchange of entry ix with the last entry
Rotate_Swap(idx, ix) ==
  [idx EXCEPT ![ix + 1] = idx[Len(idx)], ![Len(idx)] = idx[ix + 1]]

\* std::rotate(begin + ix, begin + ix + 1, end): entry ix moves to the back
Rotate(idx, ix) ==
  SubSeq(idx, 1, ix) \o SubSeq(idx, ix + 2, Len(idx)) \o <<idx[ix + 1]>>

\* EmaDepth without the target term
EmaDepth_NoTarget(d, fill, max_depth) ==
  CDiv((Smooth - 1) * d, Smooth)

\* depth = ((smooth - 1) * depth + target_depth) / smooth
EmaDepth(d, fill, max_depth) ==
  CDiv((Smooth - 1) * d + CDiv(fill * max_depth, FillScale), Smooth)

\* ClampDepth without its upper bound
ClampDepth_NoUpper(d, min_depth, max_depth) ==
  IF d < min_depth THEN min_depth ELSE d

\* if (depth > max_depth) depth = max_depth; else if (depth < min_depth) ...
ClampDepth(d, min_depth, max_depth) ==
  IF d > max_depth THEN max_depth
  ELSE IF d < min_depth THEN min_depth
  ELSE d

\* AdaptDepth without the clamp
AdaptDepth_NoClamp(d, proc, fill, min_depth, max_depth) ==
  IF proc >= AdaptStart /\ proc % AdaptEvery = 0
    THEN EmaDepth(d, fill, max_depth)
    ELSE d

\* AdaptDepth without the test processed % 32 == 0
AdaptDepth_EveryStep(d, proc, fill, min_depth, max_depth) ==
  IF proc >= AdaptStart
    THEN ClampDepth(EmaDepth(d, fill, max_depth), min_depth, max_depth)
    ELSE d

\* the depth after an emission that made `proc` the value of ++processed
AdaptDepth(d, proc, fill, min_depth, max_depth) ==
  IF proc >= AdaptStart /\ proc % AdaptEvery = 0
    THEN ClampDepth(EmaDepth(d, fill, max_depth), min_depth, max_depth)
    ELSE d

\* min_depth = std::min<int32_t>(file_order.nilsimsa_min_depth, max_depth)
MinDepth(o) == Min(o.nilsimsa_min_depth, o.nilsimsa_depth)

-----------------------------------------------------------------------------
(* Initial state: an empty registry, no order call running *)

Modes == {"NONE", "PATH", "SCRIPT", "SIMILARITY", "NILSIMSA"}

\* the options before order_inodes is called: only the mode is known
NoOpts(mode) ==
  [ mode |-> mode, nilsimsa_depth |-> 1, nilsimsa_min_depth |-> 1,
    nilsimsa_limit |-> 255, first_inode |-> 0 ]
NoScript == [ has_order |-> FALSE, order_called |-> FALSE, perm |-> <<>> ]
\* no progress object constructed, no dwarfsck run started
NoReporter == [ tpc |-> "none" ]
NoCk == [ pc |-> "none" ]
NoScanner == [ pc |-> "none" ]
NoLast ==
  [ idx |-> <<>>, ref |-> 0, sim |-> <<>>, depth |-> 0, end |-> 0,
    res |-> [ix |-> 0, sim |-> 0, ncmp |-> 0, brk |-> FALSE] ]

Init ==
  /\ obj = <<>>
  /\ inodes_ = <<>>
  /\ pc = "idle"
  /\ \E mode \in Modes : opts = NoOpts(mode)
  /\ scr = NoScript
  /\ inodes = <<>>
  /\ index = <<>>
  /\ inode_no = 0
  /\ count = 0
  /\ depth = 0
  /\ processed = 0
  /\ prog_nilsimsa_depth = <<>>
  /\ emit_k = 0
  /\ sunk = <<>>
  /\ last = NoLast
  /\ index_size = 0
  /\ err = "none"
  /\ reporter = NoReporter
  /\ scanner = NoScanner
  /\ ck = NoCk

orderLocals == <<opts, scr, inodes, index, inode_no, count, depth, processed,
                 prog_nilsimsa_depth, emit_k, sunk, last, index_size>>

\* what a step of the inode manager or of its driver leaves alone
driverFrame == <<orderLocals, toolVars>>

-----------------------------------------------------------------------------
(* The driver: create inodes, give them files, scan them *)

\* create_inode putting the new inode at the front of the registry vector
create_inode_PushFront ==
  /\ Ready
  /\ Len(obj) < MaxInodes
  /\ obj' = Append(obj, NewInode)
  /\ inodes_' = <<Len(obj) + 1>> \o inodes_
  /\ pc' = "new"
  /\ UNCHANGED <<err, driverFrame>>

\* inode_manager_::create_inode
create_inode ==
  /\ Ready
  /\ Len(obj) < MaxInodes
  /\ obj' = Append(obj, NewInode)
  /\ inodes_' = Append(inodes_, Len(obj) + 1)
  /\ pc' = "new"
  /\ UNCHANGED <<err, driverFrame>>

\* set_files without the test of files_: the new vector replaces the old one
set_files_Overwrite(i, fv) ==
  /\ pc \in {"new", "filed", "idle"}
  /\ obj' = [obj EXCEPT ![i].files = fv]
  /\ pc' = "filed"
  /\ UNCHANGED <<err, inodes_, driverFrame>>

\* inode_::set_files(fv) on inode i
set_files(i, fv) ==
  /\ pc \in {"new", "filed", "idle"}
  /\ IF obj[i].files # <<>>
       THEN /\ err' = "AlreadySet"
            /\ pc' = "failed"
            /\ UNCHANGED obj
       ELSE /\ obj' = [obj EXCEPT ![i].files = fv]
            /\ pc' = "filed"
            /\ UNCHANGED err
  /\ UNCHANGED <<inodes_, driverFrame>>

\* a call by the driver of one of the four const accessors on inode i: the
\* call returns and nothing changes, or it throws and the driver ends
call_accessor(op, i) ==
  /\ pc \in {"new", "filed", "idle"}
  /\ IF try_accessor(op, i).thrown # "none"
       THEN /\ err' = try_accessor(op, i).thrown
            /\ pc' = "failed"
            /\ UNCHANGED <<obj, inodes_, driverFrame>>
       ELSE UNCHANGED vars

\* the file vectors the driver passes: one file, whose path no other inode has
FileVectors ==
  { <<f>> : f \in { g \in Files :
      \A j \in 1..Len(obj) :
        obj[j].files # <<>> => any(j).path # g.path } }

\* the file vectors a call of set_files on inode i is tried with: on an inode
\* that has its files, also the vector it already holds
FileVectorsFor(i) ==
  IF obj[i].files = <<>> THEN FileVectors ELSE FileVectors \cup {obj[i].files}

\* inode_::scan of the inode i just given its files, whose file's content
\* hashes to c
scan(i, c) ==
  /\ pc = "filed"
  /\ i = Len(obj)
  /\ IF needs_scan /\ size(i) > 0
       THEN obj' = [obj EXCEPT
              ![i].similarity_hash_ =
                 IF with_similarity THEN c.similarity ELSE @,
              ![i].nilsimsa_similarity_hash_ =
                 IF with_nilsimsa THEN <<c.nilsimsa>> ELSE @]
       ELSE UNCHANGED obj
  /\ pc' = "idle"
  /\ UNCHANGED <<inodes_, err, driverFrame>>

-----------------------------------------------------------------------------
(* order_inodes: modes NONE, PATH, SCRIPT, SIMILARITY *)

\* the tail of order_inodes for these modes once the registry vector is v:
\* number_inodes(first_inode), then the emission loop starts
NumberAndEmit(v, first) ==
  /\ inodes_' = v
  /\ obj' = number_inodes(obj, v, first)
  /\ emit_k' = 0
  /\ pc' = "emit"
  /\ UNCHANGED <<inodes, index, inode_no, count, depth, processed,
                 prog_nilsimsa_depth, sunk, last, index_size, err>>
  /\ UNCHANGED toolVars

\* case file_order_mode::NONE
OrderNone(first) ==
  /\ Ready /\ opts.mode = "NONE"
  /\ opts' = [opts EXCEPT !.first_inode = first]
  /\ scr' = NoScript
  /\ NumberAndEmit(inodes_, first)

\* case file_order_mode::PATH
OrderPath(first) ==
  /\ Ready /\ opts.mode = "PATH"
  /\ opts' = [opts EXCEPT !.first_inode = first]
  /\ scr' = NoScript
  /\ \E v \in order_inodes_by_path : NumberAndEmit(v, first)

\* case file_order_mode::SCRIPT, the script able to order: scr->order(inodes_)
\* leaves the permutation perm of the vector
OrderScript(first, perm) ==
  /\ Ready /\ opts.mode = "SCRIPT"
  /\ opts' = [opts EXCEPT !.first_inode = first]
  /\ scr' = [has_order |-> TRUE, order_called |-> TRUE, perm |-> perm]
  /\ NumberAndEmit(perm, first)

\* OrderScriptRefused testing has_order() only after the script has ordered
\* the registry and the inodes are numbered
OrderScriptRefused_CheckLast(first) ==
  /\ Ready /\ opts.mode = "SCRIPT"
  /\ opts' = [opts EXCEPT !.first_inode = first]
  /\ scr' = [has_order |-> FALSE, order_called |-> TRUE, perm |-> inodes_]
  /\ obj' = number_inodes(obj, inodes_, first)
  /\ err' = "InvalidRequest"
  /\ pc' = "failed"
  /\ UNCHANGED <<inodes_, inodes, index, inode_no, count, depth,
                 processed, prog_nilsimsa_depth, emit_k, sunk, last, index_size>>
  /\ UNCHANGED toolVars

\* case file_order_mode::SCRIPT, has_order() false: the throw
OrderScriptRefused(first) ==
  /\ Ready /\ opts.mode = "SCRIPT"
  /\ opts' = [opts EXCEPT !.first_inode = first]
  /\ scr' = [has_order |-> FALSE, order_called |-> FALSE, perm |-> <<>>]
  /\ err' = "InvalidRequest"
  /\ pc' = "failed"
  /\ UNCHANGED <<obj, inodes_, inodes, index, inode_no, count, depth,
                 processed, prog_nilsimsa_depth, emit_k, sunk, last, index_size>>
  /\ UNCHANGED toolVars

\* case file_order_mode::SIMILARITY
OrderSimilarity(first) ==
  /\ Ready /\ opts.mode = "SIMILARITY"
  /\ opts' = [opts EXCEPT !.first_inode = first]
  /\ scr' = NoScript
  /\ \E v \in order_inodes_by_similarity : NumberAndEmit(v, first)

\* one turn of: for (const auto& ino : inodes_) fn(ino);
EmitNext ==
  /\ pc = "emit"
  /\ emit_k < Len(inodes_)
  /\ sunk' = Append(sunk, [ino |-> inodes_[emit_k + 1],
                           num |-> obj[inodes_[emit_k + 1]].num_])
  /\ emit_k' = emit_k + 1
  /\ UNCHANGED <<obj, inodes_, pc, opts, scr, inodes, index, inode_no, count,
                 depth, processed, prog_nilsimsa_depth, last, index_size, err>>
  /\ UNCHANGED toolVars

\* the emission loop ends and order_inodes returns
EmitReturn ==
  /\ pc = "emit"
  /\ emit_k = Len(inodes_)
  /\ pc' = "done"
  /\ UNCHANGED <<obj, inodes_, opts, scr, inodes, index, inode_no, count,
                 depth, processed, prog_nilsimsa_depth, emit_k, sunk, last,
                 index_size, err>>
  /\ UNCHANGED toolVars

-----------------------------------------------------------------------------
(* order_inodes: mode NILSIMSA (order_inodes_by_nilsimsa) *)

\* finalize_inode that numbers every inode with the same number
finalize_inode_NoIncrement(ins, reg, no, idx) ==
  LET p  == idx[Len(idx)]
      id == ins[p + 1]
      o2 == set_num(obj, id, no)
  IN /\ inodes_' = Append(reg, id)
     /\ inodes' = [ins EXCEPT ![p + 1] = 0]
     /\ index' = SubSeq(idx, 1, Len(idx) - 1)
     /\ obj' = o2
     /\ inode_no' = no
     /\ sunk' = Append(sunk, [ino |-> id, num |-> o2[id].num_])

\* finalize_inode that calls the sink before it numbers the inode
finalize_inode_SinkFirst(ins, reg, no, idx) ==
  LET p  == idx[Len(idx)]
      id == ins[p + 1]
      o2 == set_num(obj, id, no)
  IN /\ inodes_' = Append(reg, id)
     /\ inodes' = [ins EXCEPT ![p + 1] = 0]
     /\ index' = SubSeq(idx, 1, Len(idx) - 1)
     /\ obj' = o2
     /\ inode_no' = no + 1
     /\ sunk' = Append(sunk, [ino |-> id, num |-> obj[id].num_])

\* the lambda finalize_inode, on the local vector ins, the registry vector
\* reg, the running number no and the index idx: move ins[idx.back()] to the
\* back of inodes_, pop idx, number the inode, call the sink
finalize_inode(ins, reg, no, idx) ==
  LET p  == idx[Len(idx)]
      id == ins[p + 1]
      o2 == set_num(obj, id, no)
  IN /\ inodes_' = Append(reg, id)
     /\ inodes' = [ins EXCEPT ![p + 1] = 0]
     /\ index' = SubSeq(idx, 1, Len(idx) - 1)
     /\ obj' = o2
     /\ inode_no' = no + 1
     /\ sunk' = Append(sunk, [ino |-> id, num |-> o2[id].num_])

\* the partition predicate letting empty inodes through
NonEmptyEntry_Always(i) == size(inodes_[i + 1]) >= 0

\* the partition predicate: inodes[i]->size() > 0
NonEmptyEntry(i) == size(inodes_[i + 1]) > 0

\* entry of order_inodes_by_nilsimsa: swap the registry vector out, build the
\* index, partition the empty inode to its back and, if there is one, emit it:
\* if (empty != index.end()) finalize_inode();
\* The step runs on through presort_index(inodes, index), which orders the
\* entries that stay in the index and reads nothing the emission changes; what
\* std::sort can leave does not depend on the order std::partition left them
\* in, so of the partition's outcome only index.back() matters.
OrderNilsimsa(first, max_depth, min_depth, limit) ==
  /\ Ready /\ opts.mode = "NILSIMSA"
  /\ opts' = [ mode |-> "NILSIMSA", nilsimsa_depth |-> max_depth,
               nilsimsa_min_depth |-> min_depth, nilsimsa_limit |-> limit,
               first_inode |-> first ]
  /\ scr' = NoScript
  /\ count' = Len(inodes_)
  /\ LET iota      == [k \in 1..Len(inodes_) |-> k - 1]
         presorted == presort_index(inodes_, SelectSeq(iota, NonEmptyEntry))
         backs     == { IF idx = <<>> THEN -1 ELSE idx[Len(idx)] :
                          idx \in PartitionOutcomes(iota, NonEmptyEntry) }
     IN \E back \in backs :
          IF back # -1 /\ ~NonEmptyEntry(back)
            THEN \E rest \in presorted :
                   finalize_inode(inodes_, <<>>, first, Append(rest, back))
            ELSE /\ inodes' = inodes_
                 /\ inodes_' = <<>>
                 /\ inode_no' = first
                 /\ index' \in presorted
                 /\ UNCHANGED <<obj, sunk>>
  /\ pc' = "nilsimsa_seed"
  /\ UNCHANGED <<depth, processed, prog_nilsimsa_depth, emit_k, last,
                 index_size, err>>
  /\ UNCHANGED toolVars

\* if (!index.empty()): set up depth and processed and emit the seed, the
\* back of the presorted index
NilsimsaSeed ==
  /\ pc = "nilsimsa_seed"
  /\ IF index # <<>>
       THEN /\ depth' = opts.nilsimsa_depth
            /\ processed' = 0
            /\ finalize_inode(inodes, inodes_, inode_no, index)
            /\ pc' = IF Len(index) > 1 THEN "nilsimsa_loop" ELSE "nilsimsa_check"
       ELSE /\ pc' = "nilsimsa_check"
            /\ UNCHANGED <<obj, inodes_, inodes, index, inode_no, sunk, depth,
                           processed>>
  /\ UNCHANGED <<opts, scr, count, prog_nilsimsa_depth, emit_k, last,
                 index_size, err>>
  /\ UNCHANGED toolVars

\* one turn of while (!index.empty()), the sink returning fill
NilsimsaStep ==
  /\ pc = "nilsimsa_loop"
  /\ index # <<>>
  /\ LET ref == inodes_[Len(inodes_)]
         sim == [i \in 0..(Len(index) - 1) |->
                   Similarity(nilsimsa_similarity_hash(ref),
                              nilsimsa_similarity_hash(inodes[index[i + 1] + 1]))]
         end == WindowEnd(Len(index), depth)
         res == find_similar_inode(sim, Len(index), opts.nilsimsa_limit, end)
     IN /\ finalize_inode(inodes, inodes_, inode_no, Rotate(index, res.ix))
        /\ last' = [idx |-> index, ref |-> ref, sim |-> sim, depth |-> depth,
                    end |-> end, res |-> res]
  /\ processed' = processed + 1
  /\ \E fill \in Fills :
       depth' = AdaptDepth(depth, processed + 1, fill, MinDepth(opts),
                           opts.nilsimsa_depth)
  /\ prog_nilsimsa_depth' = <<depth'>>
  /\ pc' = IF Len(index) > 1 THEN "nilsimsa_loop" ELSE "nilsimsa_check"
  /\ UNCHANGED <<opts, scr, count, emit_k, index_size, err>>
  /\ UNCHANGED toolVars

\* if (count != inodes_.size()) throw; else order_inodes returns
NilsimsaCheck ==
  /\ pc = "nilsimsa_check"
  /\ IF count # Len(inodes_)
       THEN /\ err' = "Internal" /\ pc' = "failed"
       ELSE /\ pc' = "done" /\ UNCHANGED err
  /\ UNCHANGED <<obj, inodes_, opts, scr, inodes, index, inode_no, count,
                 depth, processed, prog_nilsimsa_depth, emit_k, sunk, last,
                 index_size>>
  /\ UNCHANGED toolVars

-----------------------------------------------------------------------------
(* Spec: whole ordering runs *)

\* nilsimsa_depth options tried, and the nilsimsa_min_depth tried with each
DepthOpts == 1..MaxDepthOpt
MinDepthOpts(max_depth) == {1}

Next ==
  \/ create_inode
  \/ /\ pc \in {"new", "filed", "idle"}
     /\ \E i \in 1..Len(obj) : \E fv \in FileVectorsFor(i) : set_files(i, fv)
  \/ /\ pc \in {"new", "filed", "idle"}
     /\ \E i \in 1..Len(obj), op \in Accessors : call_accessor(op, i)
  \/ /\ pc = "filed"
     /\ \E c \in Contents : scan(Len(obj), c)
  \/ \E first \in FirstInodes : OrderNone(first)
  \/ \E first \in FirstInodes : OrderPath(first)
  \/ /\ Ready /\ opts.mode = "SCRIPT"
     /\ \E first \in FirstInodes, perm \in PermSeqs(Range(inodes_)) :
          OrderScript(first, perm)
  \/ \E first \in FirstInodes : OrderScriptRefused(first)
  \/ \E first \in FirstInodes : OrderSimilarity(first)
  \/ EmitNext
  \/ EmitReturn
  \/ \E first \in FirstInodes, max_depth \in DepthOpts, limit \in Limits :
       \E min_depth \in MinDepthOpts(max_depth) :
         OrderNilsimsa(first, max_depth, min_depth, limit)
  \/ NilsimsaSeed
  \/ NilsimsaStep
  \/ NilsimsaCheck

Spec == Init /\ [][Next]_vars

-----------------------------------------------------------------------------
(* SpecWalk: order_inodes in mode NILSIMSA over registries of up to        *)
(* WalkInodes inodes, so that the greedy walk takes several steps over an  *)
(* index of several entries. The run starts where the driver has created    *)
(* and scanned the inodes, one file each.                                   *)

\* the files in the order their inodes are created
WalkFiles ==
  << [path |-> Str_ax, name |-> Str_x,  size |-> 2],
     [path |-> Str_cc, name |-> Str_cc, size |-> 0],
     [path |-> Str_c,  name |-> Str_c,  size |-> 1],
     [path |-> Str_bx, name |-> Str_x,  size |-> 2],
     [path |-> Str_ay, name |-> Str_y,  size |-> 2] >>

\* the inode_ the driver leaves for file f with content c: create_inode,
\* set_files, scan with with_nilsimsa set
WalkInode(f, c) ==
  [ NewInode EXCEPT
      !.files = <<f>>,
      !.nilsimsa_similarity_hash_ = IF f.size > 0 THEN <<c.nilsimsa>> ELSE @ ]

InitWalk ==
  /\ \E n \in 1..WalkInodes :
       \E fs \in [1..n -> 1..Len(WalkFiles)], cs \in [1..n -> Contents] :
         /\ \A a \in 1..n, b \in 1..n : a < b => fs[a] < fs[b]
         /\ obj = [k \in 1..n |-> WalkInode(WalkFiles[fs[k]], cs[k])]
         /\ inodes_ = [k \in 1..n |-> k]
  /\ pc = "idle"
  /\ opts = NoOpts("NILSIMSA")
  /\ scr = NoScript
  /\ inodes = <<>>
  /\ index = <<>>
  /\ inode_no = 0
  /\ count = 0
  /\ depth = 0
  /\ processed = 0
  /\ prog_nilsimsa_depth = <<>>
  /\ emit_k = 0
  /\ sunk = <<>>
  /\ last = NoLast
  /\ index_size = 0
  /\ err = "none"
  /\ reporter = NoReporter
  /\ scanner = NoScanner
  /\ ck = NoCk

NextWalk ==
  \/ \E first \in FirstInodes, max_depth \in DepthOpts, limit \in Limits :
       \E min_depth \in MinDepthOpts(max_depth) :
         OrderNilsimsa(first, max_depth, min_depth, limit)
  \/ NilsimsaSeed
  \/ NilsimsaStep
  \/ NilsimsaCheck

SpecWalk == InitWalk /\ [][NextWalk]_vars

-----------------------------------------------------------------------------
(* SpecDepth: the greedy loop of order_inodes_by_nilsimsa over long runs.   *)
(* The state is the one the loop's depth control reads and writes; the     *)
(* index is kept by its size, and the similarities the scan meets in the   *)
(* window are inputs of each step.                                         *)

\* similarities a window entry can have to the reference
SimVals == {-253, 255}

\* the loop is reached (seed emitted) with MaxSteps entries left in the index
InitDepth ==
  /\ obj = <<>>
  /\ inodes_ = <<>>
  /\ pc = "nilsimsa_loop"
  /\ \E max_depth \in DepthOpts, limit \in Limits :
       \E min_depth \in 0..max_depth :
         /\ opts = [ mode |-> "NILSIMSA", nilsimsa_depth |-> max_depth,
                     nilsimsa_min_depth |-> min_depth,
                     nilsimsa_limit |-> limit, first_inode |-> 0 ]
         /\ depth = max_depth
  /\ scr = NoScript
  /\ inodes = <<>>
  /\ index = <<>>
  /\ inode_no = 0
  /\ count = 0
  /\ processed = 0
  /\ prog_nilsimsa_depth = <<>>
  /\ emit_k = 0
  /\ sunk = <<>>
  /\ last = NoLast
  /\ index_size = MaxSteps
  /\ err = "none"
  /\ reporter = NoReporter
  /\ scanner = NoScanner
  /\ ck = NoCk

\* one turn of while (!index.empty()): the scan of the window meets the
\* similarities sim, the sink returns a fill out of fills
DepthStepFill(sim, fills) ==
  /\ pc = "nilsimsa_loop"
  /\ index_size > 0
  /\ LET end == WindowEnd(index_size, depth)
         res == find_similar_inode(sim, index_size, opts.nilsimsa_limit, end)
     IN last' = [NoLast EXCEPT !.depth = depth, !.end = end,
                               !.res.ncmp = res.ncmp, !.res.brk = res.brk]
  /\ index_size' = index_size - 1
  /\ processed' = processed + 1
  /\ \E fill \in fills :
       depth' = AdaptDepth(depth, processed + 1, fill, MinDepth(opts),
                           opts.nilsimsa_depth)
  /\ prog_nilsimsa_depth' = <<depth'>>
  /\ pc' = IF index_size > 1 THEN "nilsimsa_loop" ELSE "nilsimsa_check"
  /\ UNCHANGED <<obj, inodes_, opts, scr, inodes, index, inode_no, count,
                 emit_k, sunk, err>>
  /\ UNCHANGED toolVars

\* one turn of the loop with a sink that returns any fill
DepthStep(sim) == DepthStepFill(sim, Fills)

\* the loop is left and order_inodes returns
DepthReturn ==
  /\ pc = "nilsimsa_check"
  /\ pc' = "done"
  /\ UNCHANGED <<obj, inodes_, opts, scr, inodes, index, inode_no, count,
                 depth, processed, prog_nilsimsa_depth, emit_k, sunk, last,
                 index_size, err>>
  /\ UNCHANGED toolVars

NextDepth ==
  \/ /\ pc = "nilsimsa_loop"
     /\ \E sim \in [WindowEnd(index_size, depth)..(index_size - 1) -> SimVals] :
          DepthStep(sim)
  \/ DepthReturn

SpecDepth == InitDepth /\ [][NextDepth]_vars

-----------------------------------------------------------------------------
(* SpecConstFill: the same loop with a sink whose every segment comes back *)
(* half full, the constant fill 1024 of 2048.                              *)

\* the fills such a sink returns
ConstFills == {1024}

NextConstFill ==
  \/ /\ pc = "nilsimsa_loop"
     /\ \E sim \in [WindowEnd(index_size, depth)..(index_size - 1) -> SimVals] :
          DepthStepFill(sim, ConstFills)
  \/ DepthReturn

SpecConstFill == InitDepth /\ [][NextConstFill]_vars

-----------------------------------------------------------------------------
(* SpecProgress: the progress object of src/src/dwarfs/progress.cpp. Its    *)
(* constructor starts a thread that calls the reporter func(false)  *)
(* every 200 ms under mx_ and func(true) when running_ is cleared;  *)
(* its destructor clears running_, notifies cond_ and joins the thread.    *)

\* the inode manager's variables, which no step of the tools touches
managerVars == <<obj, inodes_, pc, opts, scr, inodes, index, inode_no, count,
                 depth, processed, prog_nilsimsa_depth, emit_k, sunk, last,
                 index_size, err>>

\* the state the constructor leaves: running_(true), the thread started and
\* not yet run, the object in use by its owner
InitProgress ==
  /\ obj = <<>>
  /\ inodes_ = <<>>
  /\ pc = "idle"
  /\ opts = NoOpts("NONE")
  /\ scr = NoScript
  /\ inodes = <<>>
  /\ index = <<>>
  /\ inode_no = 0
  /\ count = 0
  /\ depth = 0
  /\ processed = 0
  /\ prog_nilsimsa_depth = <<>>
  /\ emit_k = 0
  /\ sunk = <<>>
  /\ last = NoLast
  /\ index_size = 0
  /\ err = "none"
  /\ reporter = [ running_ |-> TRUE,    \* running_
                  mx_ |-> "free",       \* mx_: "free" or held by "thread"
                  notified |-> FALSE,   \* cond_: a notification reached the waiter
                  tpc |-> "start",      \* position of the thread's lambda
                  dpc |-> "alive",      \* position of ~progress
                  calls |-> <<>> ]      \* the reporter's calls: their final flags
  /\ ck = NoCk
  /\ scanner = NoScanner

\* std::unique_lock<std::mutex> lock(mx_), and the lock taken again when
\* wait_for returns
thread_lock ==
  /\ reporter.tpc \in {"start", "woken"}
  /\ reporter.mx_ = "free"
  /\ reporter' = [reporter EXCEPT !.mx_ = "thread", !.tpc = "test"]
  /\ UNCHANGED <<managerVars, ck, scanner>>

\* while (running_)
thread_test ==
  /\ reporter.tpc = "test"
  /\ reporter' = [reporter EXCEPT
                    !.tpc = IF reporter.running_ THEN "report" ELSE "final"]
  /\ UNCHANGED <<managerVars, ck, scanner>>

\* func(false); the reports made while the object is in use are bounded, the
\* one the thread is about to make when the destructor begins is not held up
thread_report ==
  /\ reporter.tpc = "report"
  /\ Len(reporter.calls) < MaxReports \/ ~reporter.running_
  /\ reporter' = [reporter EXCEPT !.calls = Append(@, FALSE), !.tpc = "wait"]
  /\ UNCHANGED <<managerVars, ck, scanner>>

\* cond_.wait_for(lock, 200ms): the mutex is released and the thread blocks
thread_wait ==
  /\ reporter.tpc = "wait"
  /\ reporter' = [reporter EXCEPT !.mx_ = "free", !.notified = FALSE,
                                  !.tpc = "blocked"]
  /\ UNCHANGED <<managerVars, ck, scanner>>

\* thread_wake for a wait without a timeout: only a notification ends it
thread_wake_OnNotify ==
  /\ reporter.tpc = "blocked"
  /\ reporter.notified
  /\ reporter' = [reporter EXCEPT !.notified = FALSE, !.tpc = "woken"]
  /\ UNCHANGED <<managerVars, ck, scanner>>

\* wait_for ends: on a notification, or when the 200 ms have passed
thread_wake ==
  /\ reporter.tpc = "blocked"
  /\ reporter' = [reporter EXCEPT !.notified = FALSE, !.tpc = "woken"]
  /\ UNCHANGED <<managerVars, ck, scanner>>

\* func(true)
thread_final ==
  /\ reporter.tpc = "final"
  /\ reporter' = [reporter EXCEPT !.calls = Append(@, TRUE), !.tpc = "exit"]
  /\ UNCHANGED <<managerVars, ck, scanner>>

\* the lambda returns: lock is destroyed and the thread ends
thread_exit ==
  /\ reporter.tpc = "exit"
  /\ reporter' = [reporter EXCEPT !.mx_ = "free", !.tpc = "ended"]
  /\ UNCHANGED <<managerVars, ck, scanner>>

\* ~progress: running_ = false
dtor_stop ==
  /\ reporter.dpc = "alive"
  /\ reporter' = [reporter EXCEPT !.running_ = FALSE, !.dpc = "notify"]
  /\ UNCHANGED <<managerVars, ck, scanner>>

\* ~progress: cond_.notify_all()
dtor_notify ==
  /\ reporter.dpc = "notify"
  /\ reporter' = [reporter EXCEPT
                    !.notified = (reporter.tpc = "blocked"), !.dpc = "join"]
  /\ UNCHANGED <<managerVars, ck, scanner>>

\* dtor_join returning without waiting for the thread
dtor_join_NoWait ==
  /\ reporter.dpc = "join"
  /\ reporter' = [reporter EXCEPT !.dpc = "returned"]
  /\ UNCHANGED <<managerVars, ck, scanner>>

\* ~progress: thread_.join() returns once the thread has ended
dtor_join ==
  /\ reporter.dpc = "join"
  /\ reporter.tpc = "ended"
  /\ reporter' = [reporter EXCEPT !.dpc = "returned"]
  /\ UNCHANGED <<managerVars, ck, scanner>>

NextProgress ==
  \/ thread_lock
  \/ thread_test
  \/ thread_report
  \/ thread_wait
  \/ thread_wake
  \/ thread_final
  \/ thread_exit
  \/ dtor_stop
  \/ dtor_notify
  \/ dtor_join

SpecProgress == InitProgress /\ [][NextProgress]_vars

\* SpecProgress under fair scheduling: a thread that can take its next step
\* takes it, a call of the reporter returns, the timed wait ends after its
\* 200 ms at the latest, and the destructor, once begun, goes on
SpecProgressFair ==
  /\ SpecProgress
  /\ WF_vars(thread_lock)
  /\ WF_vars(thread_test)
  /\ WF_vars(thread_report)
  /\ WF_vars(thread_wait)
  /\ WF_vars(thread_wake)
  /\ WF_vars(thread_final)
  /\ WF_vars(thread_exit)
  /\ WF_vars(dtor_notify)
  /\ WF_vars(dtor_join)

-----------------------------------------------------------------------------
(* SpecCk: main of src/src/dwarfsck.cpp. The streams are the sequences of   *)
(* the pieces written to them; the filesystem image and what it holds are  *)
(* inputs of the run.                                                      *)

\* the names the tool is run under, the images argv[1] can name ("bad": the
\* filesystem constructor throws), the contents of the file argv[2] names
ProgramNames == {"dwarfsck", "./dwarfsck"}
Images == {"good", "bad"}
FileData == {<<>>, <<104>>, <<104, 105>>}

\* the process before main runs: argc, argv[0], and the image, whether
\* fs.find(argv[2]) finds an entry and the data fs.read gives for it
InitCk ==
  /\ obj = <<>>
  /\ inodes_ = <<>>
  /\ pc = "idle"
  /\ opts = NoOpts("NONE")
  /\ scr = NoScript
  /\ inodes = <<>>
  /\ index = <<>>
  /\ inode_no = 0
  /\ count = 0
  /\ depth = 0
  /\ processed = 0
  /\ prog_nilsimsa_depth = <<>>
  /\ emit_k = 0
  /\ sunk = <<>>
  /\ last = NoLast
  /\ index_size = 0
  /\ err = "none"
  /\ reporter = NoReporter
  /\ scanner = NoScanner
  /\ \E argc \in 1..MaxArgc, argv0 \in ProgramNames, image \in Images,
        found \in BOOLEAN, data \in FileData :
       ck = [ pc |-> "main", argc |-> argc, argv0 |-> argv0, image |-> image,
              found |-> found, data |-> data,
              cout |-> <<>>, cerr |-> <<>>, exit_code |-> -1 ]

\* else branch of if (argc == 2 || argc == 3):
\* std::cerr << "Usage: " << argv[0] << " file" << std::endl
main_usage ==
  /\ ck.pc = "main"
  /\ ~(ck.argc = 2 \/ ck.argc = 3)
  /\ ck' = [ck EXCEPT !.cerr = @ \o <<"Usage: ", ck.argv0, " file", "\n">>,
                      !.pc = "return"]
  /\ UNCHANGED <<managerVars, reporter, scanner>>

\* argc == 2 || argc == 3: the logger and the filesystem are constructed; the
\* constructor throws on an image it cannot read
main_open ==
  /\ ck.pc = "main"
  /\ ck.argc = 2 \/ ck.argc = 3
  /\ ck' = [ck EXCEPT !.pc = IF ck.image = "bad" THEN "catch"
                             ELSE IF ck.argc = 3 THEN "find" ELSE "identify"]
  /\ UNCHANGED <<managerVars, reporter, scanner>>

\* argc == 3: fs.find(argv[2]); if (de) the entry is read and its data
\* written to std::cout
main_find ==
  /\ ck.pc = "find"
  /\ ck' = [ck EXCEPT !.cout = IF ck.found THEN @ \o <<ck.data>> ELSE @,
                      !.pc = "return"]
  /\ UNCHANGED <<managerVars, reporter, scanner>>

\* argc == 2: filesystem::identify(lgr, mm, std::cout)
main_identify ==
  /\ ck.pc = "identify"
  /\ ck' = [ck EXCEPT !.cout = @ \o <<"identify">>, !.pc = "return"]
  /\ UNCHANGED <<managerVars, reporter, scanner>>

\* catch (const std::exception& e): "Error: " and e.what() to std::cerr,
\* return 1
main_catch ==
  /\ ck.pc = "catch"
  /\ ck' = [ck EXCEPT !.cerr = @ \o <<"Error: ", "what", "\n">>,
                      !.exit_code = 1, !.pc = "exited"]
  /\ UNCHANGED <<managerVars, reporter, scanner>>

\* return 0
main_return ==
  /\ ck.pc = "return"
  /\ ck' = [ck EXCEPT !.exit_code = 0, !.pc = "exited"]
  /\ UNCHANGED <<managerVars, reporter, scanner>>

NextCk ==
  \/ main_usage
  \/ main_open
  \/ main_find
  \/ main_identify
  \/ main_catch
  \/ main_return

SpecCk == InitCk /\ [][NextCk]_vars

-----------------------------------------------------------------------------
(* SpecScan: one call of inode_::scan on an inode that holds a file. The    *)
(* file is mapped and fed to the enabled hashers in windows of chunk_size  *)
(* bytes; the mapping is told what it may release. Offsets and sizes are   *)
(* in bytes; the hashers are kept by the bytes they were fed.              *)

\* constexpr size_t chunk_size = 16 << 20
chunk_size == 16777216

\* what a file's size leaves over after its full windows
Remainders == {0, 1, chunk_size - 1}

\* file sizes scanned: up to MaxWindows full windows and a remainder
ScanSizes == { k * chunk_size + r : k \in 0..MaxWindows, r \in Remainders }

\* similarity::update / nilsimsa::update(data, size): a streaming hasher is
\* the bytes it was fed so far, kept as the byte ranges <<from, to>> of the
\* file in feeding order, a range that continues the last one joined to it
update(h, off, len) ==
  IF len = 0 THEN h
  ELSE IF h # <<>> /\ h[Len(h)][2] = off
         THEN [h EXCEPT ![Len(h)] = <<h[Len(h)][1], off + len>>]
         ELSE Append(h, <<off, off + len>>)

\* similarity::finalize / nilsimsa::finalize: the hash of the bytes fed, and
\* of no more than them
finalize(h) == [ hash_of |-> h ]

\* the offset up to which the mapping was told to release so far
ReleasedUntil(sn) ==
  IF sn.released = <<>> THEN 0 ELSE sn.released[Len(sn.released)].until

\* the offset up to which the mapping was read so far
ReadUntil(sn) ==
  IF sn.reads = <<>> THEN 0
  ELSE sn.reads[Len(sn.reads)].off + sn.reads[Len(sn.reads)].len

\* update_hashes(mm->as<uint8_t>(off), len): the mapping is read at off, the
\* hashers whose flag is set are fed
update_hashes(sn, off, len) ==
  [sn EXCEPT
     !.reads = Append(@, [off |-> off, len |-> len,
                          released |-> ReleasedUntil(sn)]),
     !.sc = IF sn.with_similarity THEN update(@, off, len) ELSE @,
     !.fed_sc = IF sn.with_similarity
                  THEN Append(@, [off |-> off, len |-> len]) ELSE @,
     !.nc = IF sn.with_nilsimsa THEN update(@, off, len) ELSE @,
     !.fed_nc = IF sn.with_nilsimsa
                  THEN Append(@, [off |-> off, len |-> len]) ELSE @]

\* scan is called on a fresh inode whose first file has file_size bytes
InitScan ==
  /\ obj = <<>>
  /\ inodes_ = <<>>
  /\ pc = "idle"
  /\ opts = NoOpts("NONE")
  /\ scr = NoScript
  /\ inodes = <<>>
  /\ index = <<>>
  /\ inode_no = 0
  /\ count = 0
  /\ depth = 0
  /\ processed = 0
  /\ prog_nilsimsa_depth = <<>>
  /\ emit_k = 0
  /\ sunk = <<>>
  /\ last = NoLast
  /\ index_size = 0
  /\ err = "none"
  /\ reporter = NoReporter
  /\ ck = NoCk
  /\ \E ws \in BOOLEAN, wn \in BOOLEAN, n \in ScanSizes :
       scanner = [ pc |-> "scan",
                   with_similarity |-> ws,    \* opts.with_similarity
                   with_nilsimsa |-> wn,      \* opts.with_nilsimsa
                   file_size |-> n,           \* files_.front()->size()
                   size |-> 0,                \* local size
                   offset |-> 0,              \* local offset
                   mapped |-> 0,              \* calls of os.map_file
                   sc |-> <<>>,               \* similarity sc
                   nc |-> <<>>,               \* nilsimsa nc
                   fed_sc |-> <<>>,           \* calls of sc.update
                   fed_nc |-> <<>>,           \* calls of nc.update
                   reads |-> <<>>,            \* calls of mm->as
                   released |-> <<>>,         \* calls of mm->release_until
                   similarity_hash_ |-> NewInode.similarity_hash_,
                   nilsimsa_similarity_hash_ |->
                     NewInode.nilsimsa_similarity_hash_ ]

\* if (opts.needs_scan()) { size = file->size(); if (size > 0) { ... } }
scan_enter ==
  /\ scanner.pc = "scan"
  /\ scanner' =
       IF (scanner.with_similarity \/ scanner.with_nilsimsa)
            /\ scanner.file_size > 0
         THEN [scanner EXCEPT !.size = scanner.file_size, !.pc = "map"]
         ELSE [scanner EXCEPT !.pc = "returned"]
  /\ UNCHANGED <<managerVars, reporter, ck>>

\* auto mm = os.map_file(file->path(), size); size_t offset = 0
scan_map ==
  /\ scanner.pc = "map"
  /\ scanner' = [scanner EXCEPT !.mapped = @ + 1, !.offset = 0, !.pc = "loop"]
  /\ UNCHANGED <<managerVars, reporter, ck>>

\* while (size >= chunk_size) { update_hashes(mm->as(offset), chunk_size)
scan_window ==
  /\ scanner.pc = "loop"
  /\ scanner.size >= chunk_size
  /\ scanner' = [update_hashes(scanner, scanner.offset, chunk_size)
                   EXCEPT !.pc = "release"]
  /\ UNCHANGED <<managerVars, reporter, ck>>

\* scan_release with the offset left where it was
scan_release_NoAdvance ==
  /\ scanner.pc = "release"
  /\ scanner' = [scanner EXCEPT
       !.released = Append(@, [until |-> scanner.offset,
                               hashed |-> ReadUntil(scanner)]),
       !.size = @ - chunk_size,
       !.pc = "loop"]
  /\ UNCHANGED <<managerVars, reporter, ck>>

\* mm->release_until(offset); offset += chunk_size; size -= chunk_size; }
scan_release ==
  /\ scanner.pc = "release"
  /\ scanner' = [scanner EXCEPT
       !.released = Append(@, [until |-> scanner.offset,
                               hashed |-> ReadUntil(scanner)]),
       !.offset = @ + chunk_size,
       !.size = @ - chunk_size,
       !.pc = "loop"]
  /\ UNCHANGED <<managerVars, reporter, ck>>

\* the loop is left: update_hashes(mm->as(offset), size)
scan_tail ==
  /\ scanner.pc = "loop"
  /\ scanner.size < chunk_size
  /\ scanner' = [update_hashes(scanner, scanner.offset, scanner.size)
                   EXCEPT !.pc = "finalize"]
  /\ UNCHANGED <<managerVars, reporter, ck>>

\* if (opts.with_similarity) similarity_hash_ = sc.finalize();
\* if (opts.with_nilsimsa) nilsimsa_similarity_hash_ = nc.finalize()
scan_finalize ==
  /\ scanner.pc = "finalize"
  /\ scanner' = [scanner EXCEPT
       !.similarity_hash_ =
          IF scanner.with_similarity THEN finalize(scanner.sc) ELSE @,
       !.nilsimsa_similarity_hash_ =
          IF scanner.with_nilsimsa THEN <<finalize(scanner.nc)>> ELSE @,
       !.pc = "returned"]
  /\ UNCHANGED <<managerVars, reporter, ck>>

NextScan ==
  \/ scan_enter
  \/ scan_map
  \/ scan_window
  \/ scan_release
  \/ scan_tail
  \/ scan_finalize

SpecScan == InitScan /\ [][NextScan]_vars

-----------------------------------------------------------------------------
(* Properties *)

\* order_inodes has returned / a greedy step has been made
Returned == pc = "done"
StepDone == last # NoLast

\* the sink calls so far, as inodes and as the numbers seen at the calls
Emitted == [k \in 1..Len(sunk) |-> sunk[k].ino]

\* C1 (Totality): when order_inodes returns, in every mode and for every
\* registry (the empty one included), each inode created carries a number in
\* [first_inode, first_inode + count), no two inodes carry the same number,
\* and the sink was called exactly once for each inode.
C1_Totality ==
  Returned =>
    /\ \A i \in 1..Len(obj) :
         /\ opts.first_inode <= obj[i].num_
         /\ obj[i].num_ < opts.first_inode + Len(obj)
         /\ Cardinality({ k \in 1..Len(sunk) : sunk[k].ino = i }) = 1
    /\ \A i, j \in 1..Len(obj) : i # j => obj[i].num_ # obj[j].num_
    /\ Len(sunk) = Len(obj)

C1_Witness ==
  /\ Returned
  /\ opts.mode = "NILSIMSA"
  /\ opts.first_inode = 5
  /\ Len(obj) = 3
  /\ \E i \in 1..Len(obj) : size(i) = 0

\* C2 (Sink ordering): at every moment the k-th call of the sink (k = 0, 1,
\* ...) has received the inode that carries the number first_inode + k, and
\* that number was already assigned when the sink was called.
C2_SinkOrder ==
  \A k \in 1..Len(sunk) :
    /\ sunk[k].num = opts.first_inode + (k - 1)
    /\ obj[sunk[k].ino].num_ = opts.first_inode + (k - 1)

C2_Witness ==
  /\ Returned
  /\ opts.mode = "SCRIPT"
  /\ Len(sunk) = 3
  /\ Emitted # <<1, 2, 3>>
  /\ opts.first_inode = 5

\* the NILSIMSA run is past the emission of the empty inode / of the seed
PastEmpty ==
  /\ opts.mode = "NILSIMSA"
  /\ pc \in {"nilsimsa_seed", "nilsimsa_loop", "nilsimsa_check", "done"}
PastSeed ==
  /\ opts.mode = "NILSIMSA"
  /\ pc \in {"nilsimsa_loop", "nilsimsa_check", "done"}

EmptyInodes == { i \in 1..Len(obj) : size(i) = 0 }
NonEmptyInodes == { i \in 1..Len(obj) : size(i) > 0 }

\* C3 (NILSIMSA empty placement): when the registry holds an empty inode it
\* is the first inode passed to the sink and gets the number first_inode; it
\* is the only inode emitted when the presort is about to run, every later
\* emission is a non-empty inode, and a registry of only the empty inode
\* emits it once.
C3_EmptyFirst ==
  (PastEmpty /\ EmptyInodes # {}) =>
    /\ Len(sunk) >= 1
    /\ sunk[1].ino \in EmptyInodes
    /\ sunk[1].num = opts.first_inode
    /\ obj[sunk[1].ino].num_ = opts.first_inode
    /\ pc = "nilsimsa_seed" => Len(sunk) = 1
    /\ \A k \in 2..Len(sunk) : sunk[k].ino \in NonEmptyInodes
    /\ (Returned /\ Len(obj) = 1) => Len(sunk) = 1

C3_Witness ==
  /\ PastEmpty
  /\ pc = "nilsimsa_seed"
  /\ Len(sunk) = 1
  /\ sunk[1].ino \in EmptyInodes
  /\ sunk[1].ino = 1
  /\ Len(index) = 2

\* the first non-empty inode the sink received
Seed ==
  sunk[CHOOSE k \in 1..Len(sunk) :
         /\ sunk[k].ino \in NonEmptyInodes
         /\ \A j \in 1..(k - 1) : sunk[j].ino \in EmptyInodes].ino

StrLeq(a, b) == ~StrLess(b, a)

\* C4 as claimed (NILSIMSA seed): the first non-empty inode emitted is the one
\* with the largest size, among those the greatest basename, among those the
\* greatest path.
C4_SeedGreatestName ==
  (PastSeed /\ NonEmptyInodes # {}) =>
    \A j \in NonEmptyInodes :
      \/ size(j) < size(Seed)
      \/ /\ size(j) = size(Seed)
         /\ \/ StrLess(any(j).name, any(Seed).name)
            \/ /\ any(j).name = any(Seed).name
               /\ StrLeq(any(j).path, any(Seed).path)

\* C4 as amended (NILSIMSA seed): the first non-empty inode emitted is the one
\* with the largest size, among those the smallest basename, among those the
\* smallest path.
C4_SeedSmallestName ==
  (PastSeed /\ NonEmptyInodes # {}) =>
    \A j \in NonEmptyInodes :
      \/ size(j) < size(Seed)
      \/ /\ size(j) = size(Seed)
         /\ \/ StrLess(any(Seed).name, any(j).name)
            \/ /\ any(j).name = any(Seed).name
               /\ StrLeq(any(Seed).path, any(j).path)

\* a seed chosen on the path, against two inodes of its size: one of another
\* basename, one of its basename
C4_Witness ==
  /\ PastSeed
  /\ Len(obj) = 3
  /\ any(Seed).path = Str_ax
  /\ \E j \in NonEmptyInodes : any(j).path = Str_bx
  /\ \E j \in NonEmptyInodes : any(j).path = Str_ay

\* the search window of greedy step l: the (0-based) positions of the last
\* min(depth, index.size()) entries of the index the step found
Window(l) ==
  (Len(l.idx) - Min(l.depth, Len(l.idx)))..(Len(l.idx) - 1)

MaxOf(S) == CHOOSE x \in S : \A y \in S : y <= x

\* C5 as claimed (NILSIMSA window containment): the entry a greedy step
\* chooses and emits is one of the last min(depth, index.size()) entries of
\* the index.
C5_ChosenInWindow ==
  StepDone => last.res.ix \in Window(last)

\* C6 as claimed (NILSIMSA greedy choice): a greedy step without early exit
\* chooses the window entry of maximum similarity to the reference and, among
\* several of that similarity, the one closest to the tail of the index.
C6_ChosenIsNearest ==
  (StepDone /\ ~last.res.brk) =>
    LET best == MaxOf({ last.sim[j] : j \in Window(last) })
    IN last.res.ix = MaxOf({ j \in Window(last) : last.sim[j] = best })

\* the window entries of step l whose similarity reaches the limit
Hits(l) == { j \in Window(l) : l.sim[j] >= opts.nilsimsa_limit }

\* C7 (NILSIMSA early exit): when the window holds an entry whose similarity
\* to the reference is >= nilsimsa_limit, the step takes the first such entry
\* met from the tail backwards, leaves the scan there, and has compared only
\* the entries from the tail down to it.
C7_EarlyExit ==
  (StepDone /\ Hits(last) # {}) =>
    /\ last.res.brk
    /\ last.res.ix = MaxOf(Hits(last))
    /\ last.res.ncmp = Len(last.idx) - MaxOf(Hits(last))

\* an exit on the first entry scanned: the other window entry is left
\* uncompared although it reaches the limit too
C7_Witness ==
  /\ StepDone
  /\ opts.nilsimsa_limit = 255
  /\ Len(last.idx) = 2
  /\ last.depth = 2
  /\ Hits(last) = {0, 1}
  /\ last.res.ix = 1
  /\ last.res.ncmp = 1

\* C8 (NILSIMSA bounded work), under SpecDepth: whatever fill values the sink
\* has returned, a greedy step makes at most nilsimsa_max_depth similarity
\* comparisons, and at most as many as the index had entries.
C8_BoundedWork ==
  StepDone =>
    /\ last.res.ncmp <= opts.nilsimsa_depth
    /\ last.res.ncmp <= index_size + 1

\* a step after the depth was adapted downwards, scanning its whole window
C8_Witness ==
  /\ StepDone
  /\ processed > AdaptStart
  /\ opts.nilsimsa_depth = 2
  /\ last.depth = 1
  /\ last.res.ncmp = 1
  /\ ~last.res.brk

\* C9 (Depth clamp), under SpecDepth: every depth order_inodes publishes to
\* the progress record lies in [nilsimsa_min_depth, nilsimsa_max_depth],
\* whatever fill values the sink returns.
C9_DepthClamp ==
  \A k \in 1..Len(prog_nilsimsa_depth) :
    /\ opts.nilsimsa_min_depth <= prog_nilsimsa_depth[k]
    /\ prog_nilsimsa_depth[k] <= opts.nilsimsa_depth

\* the published depth was brought down to the minimum by an adaptation
C9_Witness ==
  /\ processed = AdaptStart
  /\ opts.nilsimsa_depth = 2
  /\ opts.nilsimsa_min_depth = 1
  /\ last.depth = 2
  /\ prog_nilsimsa_depth = <<1>>

\* C10 (PATH correctness): in mode PATH the paths of the inodes passed to the
\* sink are in non-decreasing byte-wise lexicographic order, and the inodes
\* are numbered in that order.
C10_PathOrder ==
  opts.mode = "PATH" =>
    \A i, j \in 1..Len(sunk) :
      i < j =>
        /\ StrLeq(any(sunk[i].ino).path, any(sunk[j].ino).path)
        /\ obj[sunk[i].ino].num_ < obj[sunk[j].ino].num_

\* S3: inodes created with the paths "b/x", "a/x", "c" come out as
\* "a/x", "b/x", "c"
C10_Witness ==
  /\ Returned
  /\ opts.mode = "PATH"
  /\ Len(obj) = 3
  /\ any(1).path = Str_bx /\ any(2).path = Str_ax /\ any(3).path = Str_c
  /\ Emitted = <<2, 1, 3>>
  /\ obj[2].num_ = 0 /\ obj[1].num_ = 1 /\ obj[3].num_ = 2

\* C11 (SIMILARITY correctness): in mode SIMILARITY the inodes passed to the
\* sink are non-decreasing in similarity fingerprint, among equal fingerprints
\* non-increasing in size, and among equal fingerprint and size
\* non-decreasing in path.
C11_SimilarityOrder ==
  opts.mode = "SIMILARITY" =>
    \A i, j \in 1..Len(sunk) :
      i < j =>
        LET a == sunk[i].ino
            b == sunk[j].ino
        IN /\ similarity_hash(a) <= similarity_hash(b)
           /\ similarity_hash(a) = similarity_hash(b) => size(a) >= size(b)
           /\ (similarity_hash(a) = similarity_hash(b) /\ size(a) = size(b))
                => StrLeq(any(a).path, any(b).path)

\* S4: fingerprints 7, 7, 3 with sizes 1, 2, 2 come out as the inode of
\* fingerprint 3, then of fingerprint 7 the larger before the smaller
C11_Witness ==
  /\ Returned
  /\ opts.mode = "SIMILARITY"
  /\ Len(obj) = 3
  /\ similarity_hash(1) = 7 /\ size(1) = 1
  /\ similarity_hash(2) = 7 /\ size(2) = 2
  /\ similarity_hash(3) = 3 /\ size(3) = 2
  /\ Emitted = <<3, 2, 1>>

\* C12 (Mode NONE preserves creation order): in mode NONE the registry keeps
\* the inodes in creation order, the i-th inode created (i = 0, 1, ...) is the
\* i-th inode passed to the sink, and it carries the number first_inode + i.
C12_NoneKeepsOrder ==
  opts.mode = "NONE" =>
    /\ inodes_ = [k \in 1..Len(obj) |-> k]
    /\ \A k \in 1..Len(sunk) :
         /\ sunk[k].ino = k
         /\ sunk[k].num = opts.first_inode + (k - 1)
    /\ pc \in {"emit", "done"} =>
         \A i \in 1..Len(obj) : obj[i].num_ = opts.first_inode + (i - 1)

\* three inodes created against their path order, numbered from 5
C12_Witness ==
  /\ Returned
  /\ opts.mode = "NONE"
  /\ opts.first_inode = 5
  /\ Len(obj) = 3
  /\ any(1).path = Str_c /\ any(2).path = Str_bx /\ any(3).path = Str_ax
  /\ Emitted = <<1, 2, 3>>
  /\ obj[1].num_ = 5 /\ obj[2].num_ = 6 /\ obj[3].num_ = 7

\* what the entry of order_inodes_by_nilsimsa can leave of a registry: the
\* empty inode std::partition puts at the back of the index (-1: none) and the
\* index presort_index leaves of the others
NilsimsaEntryOutcomes ==
  LET iota == [k \in 1..Len(inodes_) |-> k - 1]
  IN { IF idx = <<>> \/ NonEmptyEntry(idx[Len(idx)]) THEN -1 ELSE idx[Len(idx)] :
         idx \in PartitionOutcomes(iota, NonEmptyEntry) }
     \X presort_index(inodes_, SelectSeq(iota, NonEmptyEntry))

\* C13 (Determinism): for every registry an order call can meet, each step
\* that sorts or partitions has exactly one outcome: the sort by path, the
\* sort by similarity, and the partition and presort of the NILSIMSA entry;
\* every other step of an ordering run is a function of the state, the
\* options and the fill values, so equal inputs give equal emission sequences
\* and equal numbers.
C13_Determinism ==
  Ready =>
    /\ opts.mode = "PATH" => Cardinality(order_inodes_by_path) = 1
    /\ opts.mode = "SIMILARITY" => Cardinality(order_inodes_by_similarity) = 1
    /\ opts.mode = "NILSIMSA" => Cardinality(NilsimsaEntryOutcomes) = 1

\* a registry whose presort is decided by the path alone, with an empty inode
C13_Witness ==
  /\ Ready
  /\ opts.mode = "NILSIMSA"
  /\ Len(obj) = 3
  /\ any(1).path = Str_bx /\ any(2).path = Str_cc /\ any(3).path = Str_ax
  /\ NilsimsaEntryOutcomes = { <<1, <<0, 2>>>> }

\* order_inodes has been entered (and has returned, thrown, or is emitting)
OrderEntered ==
  \/ pc \in {"emit", "done"}
  \/ pc = "failed" /\ err \in {"InvalidRequest", "Internal"}

\* C14 (SCRIPT mode refusal): an order call in mode SCRIPT with a script whose
\* has_order() is false ends in InvalidRequest, and then the script's order()
\* was not called, every inode still has its unassigned number, the registry
\* holds the inodes in the order it held them before, and the sink was never
\* called.
C14_ScriptRefusal ==
  (opts.mode = "SCRIPT" /\ OrderEntered /\ ~scr.has_order) =>
    /\ pc = "failed" /\ err = "InvalidRequest"
    /\ ~scr.order_called
    /\ \A i \in 1..Len(obj) : obj[i].num_ = UnassignedNum
    /\ inodes_ = [k \in 1..Len(obj) |-> k]
    /\ sunk = <<>>

C14_Witness ==
  /\ opts.mode = "SCRIPT"
  /\ err = "InvalidRequest"
  /\ ~scr.has_order
  /\ Len(obj) = 3
  /\ opts.first_inode = 5

C16_NoFile ==
  /\ \A i \in 1..Len(obj), op \in Accessors :
       /\ obj[i].files = <<>> => try_accessor(op, i).thrown = "NoFile"
       /\ obj[i].files # <<>> => try_accessor(op, i).thrown = "none"
  /\ err = "NoFile" =>
       /\ pc = "failed"
       /\ obj[Len(obj)] = NewInode
       /\ inodes_ = [k \in 1..Len(obj) |-> k]
       /\ sunk = <<>>

\* an accessor has thrown on the second inode, created and not yet filed
C16_Witness ==
  /\ err = "NoFile"
  /\ Len(obj) = 2
  /\ obj[2].files = <<>>
  /\ try_accessor("size", 1).thrown = "none"
  /\ try_accessor("size", 2).thrown = "NoFile"

\* the inodes that carry a nilsimsa digest
Digested == { i \in 1..Len(obj) : obj[i].nilsimsa_similarity_hash_ # <<>> }

\* sim is symmetric and sim(A, A) = 255 on the digests of inodes i and j
SimilaritySymmetric(i, j) ==
  LET A == nilsimsa_similarity_hash(i)
      B == nilsimsa_similarity_hash(j)
  IN /\ Similarity(A, B) = Similarity(B, A)
     /\ Similarity(A, A) = 255

\* C17 as claimed (Similarity metric): for the digests A, B of any two inodes,
\* sim(A,B) = sim(B,A), sim(A,A) = 255 and sim(A,B) lies in [-255, 255].
C17_SimilarityRange255 ==
  \A i, j \in Digested :
    /\ SimilaritySymmetric(i, j)
    /\ Similarity(nilsimsa_similarity_hash(i), nilsimsa_similarity_hash(j))
         \in -255..255

\* C17 as amended (Similarity metric): for the digests A, B of any two inodes,
\* sim(A,B) = sim(B,A), sim(A,A) = 255 and sim(A,B) lies in [-257, 255].
C17_SimilarityRange257 ==
  \A i, j \in Digested :
    /\ SimilaritySymmetric(i, j)
    /\ Similarity(nilsimsa_similarity_hash(i), nilsimsa_similarity_hash(j))
         \in -257..255

\* a greedy step has compared two digests that differ in all 256 bits
C17_Witness ==
  /\ StepDone
  /\ \E j \in DOMAIN last.sim : last.sim[j] = -257
  /\ \E i, j \in Digested :
       /\ nilsimsa_similarity_hash(i) = DigestOnes
       /\ nilsimsa_similarity_hash(j) = DigestZero

\* C18 (Progress reporter shutdown), under SpecProgress: at every moment a
\* call of the reporter with the final flag set is the last call made so far
\* (so there is at most one, and every earlier call has the flag clear), and
\* when the destructor has returned that call has been made.
C18_FinalOnceLast ==
  /\ \A k \in 1..Len(reporter.calls) :
       reporter.calls[k] => k = Len(reporter.calls)
  /\ reporter.dpc = "returned" =>
       /\ reporter.calls # <<>>
       /\ reporter.calls[Len(reporter.calls)]

\* the destructor has returned after two periodic reports and the final one
C18_Witness ==
  /\ reporter.tpc = "ended"
  /\ reporter.dpc = "returned"
  /\ reporter.calls = <<FALSE, FALSE, TRUE>>

\* stream t holds the text "Usage: dwarfsck"
HasUsage(t) ==
  \E k \in 1..(Len(t) - 1) : t[k] = "Usage: " /\ t[k + 1] = "dwarfsck"

\* C19 as claimed, under SpecCk: dwarfsck run with no command-line arguments
\* (argc = 1, argv[0] = "dwarfsck") returns exit code 0, has written nothing
\* to the error stream, and has written a non-empty usage text holding
\* "Usage: dwarfsck" to the output stream.
C19_UsageOnOutput ==
  (ck.pc = "exited" /\ ck.argc = 1 /\ ck.argv0 = "dwarfsck") =>
    /\ ck.exit_code = 0
    /\ ck.cerr = <<>>
    /\ ck.cout # <<>>
    /\ HasUsage(ck.cout)

\* C20 (Depth adaptation cadence), under SpecDepth: whatever fill values the
\* sink returns, the search depth is nilsimsa_max_depth as long as fewer than
\* 4,096 greedy emissions have been made, and an emission changes the depth
\* only if it is the 4,096th or a later one and its count is a multiple of 32.
C20_Cadence ==
  /\ processed < AdaptStart => depth = opts.nilsimsa_depth
  /\ (processed > 0 /\ depth # last.depth) =>
       /\ processed >= AdaptStart
       /\ processed % AdaptEvery = 0

\* the depth, brought down at emission 4,096 and left alone for 31 emissions,
\* is changed again at emission 4,128
C20_Witness ==
  /\ processed = AdaptStart + AdaptEvery
  /\ opts.nilsimsa_depth = 2
  /\ last.depth = 1
  /\ depth = 2

\* the floor of the depth under the constant fill
HalfFloor == IF opts.nilsimsa_min_depth > opts.nilsimsa_depth \div 2
               THEN opts.nilsimsa_min_depth
               ELSE opts.nilsimsa_depth \div 2

\* the emission just made was an adaptation
Adapted == processed >= AdaptStart /\ processed % AdaptEvery = 0

\* C21 (EMA depth update under constant fill), under SpecConstFill: with a
\* sink that always returns fill 1024, an adaptation sets the depth to
\* (511 * depth + max_depth / 2) / 512, clamped into [min_depth, max_depth];
\* the published depth never rises, never falls below
\* max(nilsimsa_min_depth, max_depth / 2), and stays at that value once there.
C21_EmaConstantFill ==
  processed > 0 =>
    /\ prog_nilsimsa_depth = <<depth>>
    /\ Adapted =>
         LET ema == (511 * last.depth + opts.nilsimsa_depth \div 2) \div 512
         IN depth = IF ema > opts.nilsimsa_depth THEN opts.nilsimsa_depth
                    ELSE IF ema < opts.nilsimsa_min_depth
                           THEN opts.nilsimsa_min_depth
                           ELSE ema
    /\ depth <= last.depth
    /\ depth >= HalfFloor
    /\ last.depth = HalfFloor => depth = HalfFloor

\* the third adaptation: the first brought the depth from max_depth 2 down to
\* max_depth / 2 = 1, above nilsimsa_min_depth 0, and it has stayed there
C21_Witness ==
  /\ processed = AdaptStart + 2 * AdaptEvery
  /\ opts.nilsimsa_depth = 2
  /\ opts.nilsimsa_min_depth = 0
  /\ last.depth = 1
  /\ depth = 1

\* scan has work to do: a file of size > 0 and at least one hash enabled
Scanning ==
  /\ scanner.pc # "none"
  /\ scanner.file_size > 0
  /\ scanner.with_similarity \/ scanner.with_nilsimsa

\* scan has returned
Scanned == scanner.pc = "returned"

\* C22 (Scan release protocol), under SpecScan: during a scan of a file of
\* size > 0 with a hash enabled the file is mapped exactly once; the k-th
\* call of release_until, made after the k-th full window was fed, names that
\* window's end k * 16 MiB and never an offset beyond the bytes hashed; so
\* every read of a window finds all bytes before it released, and a finished
\* scan has made one call per full window.
C22_ReleaseProtocol ==
  Scanning =>
    /\ scanner.mapped <= 1
    /\ scanner.pc \in {"loop", "release", "finalize", "returned"} =>
         scanner.mapped = 1
    /\ \A k \in 1..Len(scanner.released) :
         /\ scanner.released[k].until = k * chunk_size
         /\ scanner.released[k].until <= scanner.released[k].hashed
    /\ \A j \in 1..Len(scanner.reads) :
         scanner.reads[j].released = scanner.reads[j].off
    /\ Scanned => Len(scanner.released) = scanner.file_size \div chunk_size

\* the calls f of one hasher's update are contiguous from offset 0: each
\* begins where the one before ended, none has a negative length
Contiguous(f) ==
  \A j \in 1..Len(f) :
    /\ f[j].len >= 0
    /\ f[j].off = IF j = 1 THEN 0 ELSE f[j - 1].off + f[j - 1].len

\* the calls f end at byte n
EndsAt(f, n) == f # <<>> /\ f[Len(f)].off + f[Len(f)].len = n

\* the hasher state after one update call over the whole file of n bytes
WholeFile(n) == update(<<>>, 0, n)

\* C23 (Streaming scan equivalence), under SpecScan: for every file size the
\* ranges scan feeds to an enabled hasher are contiguous from 0, in rising
\* order, and when scan returns they end at the file's size, so that the hash
\* stored is the hash of one update over the whole file; a hash whose flag is
\* not set is neither fed nor stored; with no flag set or size 0 scan maps
\* nothing, reads nothing and stores nothing.
C23_StreamingEquivalence ==
  scanner.pc # "none" =>
    /\ Contiguous(scanner.fed_sc)
    /\ Contiguous(scanner.fed_nc)
    /\ ~scanner.with_similarity =>
         /\ scanner.fed_sc = <<>>
         /\ scanner.similarity_hash_ = NewInode.similarity_hash_
    /\ ~scanner.with_nilsimsa =>
         /\ scanner.fed_nc = <<>>
         /\ scanner.nilsimsa_similarity_hash_ =
              NewInode.nilsimsa_similarity_hash_
    /\ (Scanned /\ Scanning) =>
         /\ scanner.with_similarity =>
              /\ EndsAt(scanner.fed_sc, scanner.file_size)
              /\ scanner.similarity_hash_ =
                   finalize(WholeFile(scanner.file_size))
         /\ scanner.with_nilsimsa =>
              /\ EndsAt(scanner.fed_nc, scanner.file_size)
              /\ scanner.nilsimsa_similarity_hash_ =
                   <<finalize(WholeFile(scanner.file_size))>>
    /\ ~Scanning =>
         /\ scanner.mapped = 0
         /\ scanner.reads = <<>>
         /\ scanner.similarity_hash_ = NewInode.similarity_hash_
         /\ scanner.nilsimsa_similarity_hash_ =
              NewInode.nilsimsa_similarity_hash_

\* a scan of two full windows and one byte has returned, both hashes stored
\* after three updates each
C23_Witness ==
  /\ Scanned
  /\ scanner.file_size = 2 * chunk_size + 1
  /\ scanner.with_similarity
  /\ scanner.with_nilsimsa
  /\ Len(scanner.fed_sc) = 3
  /\ Len(scanner.fed_nc) = 3
  /\ scanner.similarity_hash_ = finalize(<<<<0, 2 * chunk_size + 1>>>>)

\* the vector `inodes` as order_inodes_by_nilsimsa receives it: the inodes
\* in creation order
Registry == [k \in 1..Len(obj) |-> k]

\* idx is sorted by the presort key
PresortSorted(idx) ==
  \A a \in 1..Len(idx), b \in 1..Len(idx) :
    a < b => PresortLess(Registry, idx[a], idx[b])

\* idx without the entry at the 0-based position ix
Without(idx, ix) == SubSeq(idx, 1, ix) \o SubSeq(idx, ix + 2, Len(idx))

\* the presort has been made
Presorted ==
  /\ opts.mode = "NILSIMSA"
  /\ pc \in {"nilsimsa_seed", "nilsimsa_loop", "nilsimsa_check", "done"}

\* C24 (Invariant of the greedy walk), under SpecWalk: after the presort and
\* after every greedy step the remaining index is sorted by the presort key;
\* a step takes the chosen entry out and leaves the others in their order; and
\* the window a step searches is the min(depth, remaining) entries that come
\* last in presort order, none of them smaller than an entry outside it.
C24_IndexStaysSorted ==
  Presorted =>
    /\ PresortSorted(index)
    /\ StepDone =>
         /\ PresortSorted(last.idx)
         /\ index = Without(last.idx, last.res.ix)
         /\ last.end = Len(last.idx) - Min(last.depth, Len(last.idx))
         /\ \A v \in 0..(last.end - 1), w \in last.end..(Len(last.idx) - 1) :
              /\ PresortLess(Registry, last.idx[v + 1], last.idx[w + 1])
              /\ size(Registry[last.idx[v + 1] + 1])
                   <= size(Registry[last.idx[w + 1] + 1])

\* a step chose an entry that was not the last of three and left two entries
\* of different sizes behind
C24_Witness ==
  /\ Presorted
  /\ StepDone
  /\ Len(last.idx) = 3
  /\ last.res.ix < 2
  /\ Len(index) = 2
  /\ size(Registry[index[1] + 1]) < size(Registry[index[2] + 1])

\* the destructor has begun / has returned
DtorBegun == reporter.tpc # "none" /\ reporter.dpc # "alive"
DtorReturned == reporter.tpc # "none" /\ reporter.dpc = "returned"

\* C25 (Liveness of progress shutdown), under SpecProgressFair: with a
\* reporter that returns and fair scheduling, a destructor that has begun
\* returns, also when its notification came before the thread waited and was
\* lost; and when it has returned the thread has made its final call and
\* ended, so no reporter call follows.
C25_ShutdownTerminates ==
  /\ DtorBegun ~> DtorReturned
  /\ [](DtorReturned =>
          /\ reporter.tpc = "ended"
          /\ reporter.calls # <<>>
          /\ reporter.calls[Len(reporter.calls)] = TRUE)

\* the destructor has cleared the flag and notified while the thread was
\* still in its report; the thread now waits, with no notification to come
C25_Witness ==
  /\ reporter.tpc = "blocked"
  /\ reporter.dpc = "join"
  /\ ~reporter.running_
  /\ ~reporter.notified
====
